---- MODULE Spec2Model ----
(***************************************************************************)
(* Daily Checklist (src/daily_checklist.py): the Day Store (load_day,      *)
(* save_day, blank_tasks), the Completion Aggregator (task_counts), the    *)
(* Carry-Over Engine (carry_over_tasks) and the MainWindow handlers that   *)
(* call them.                                                              *)
(*                                                                         *)
(* A text is a sequence of one-character strings.  A task is a record      *)
(* [text, done, carried]; a day record is a sequence of tasks.  A file is  *)
(* [exists, content] where content is the JSON token stream json.dump      *)
(* wrote; load_day parses it again.  Python indexes from 0, TLA+ from 1:   *)
(* indices named after the source (slot, index, from_index, to_index) are  *)
(* 0-based and are shifted by one where a sequence is indexed.             *)
(***************************************************************************)
EXTENDS Integers, Sequences, FiniteSets, TLC

VARIABLES
    files,          \* DATA_DIR: date -> file ([exists, content])
    today,          \* date.today()
    running,        \* a MainWindow exists
    selected_date,  \* MainWindow.selected_date
    current_data,   \* MainWindow._current_data, the list the rows share
    row_day,        \* the day bound in the rows' changed-lambda (d=day)
    edits,          \* number of user edits made so far (bounded by MaxEdits)
    lastop,         \* history: the operation that produced this state
    pre,            \* history: the files before the last carry_over_tasks call
    out             \* the value (or exception) the last call returned

vars == <<files, today, running, selected_date, current_data, row_day, edits,
          lastop, pre, out>>

\* ------------------------------------------------------------------ bounds
\* Dates are day ordinals 0..MaxDay; yesterday of d is d - 1.
MaxDay == 2
\* Longest yesterday record / today record drawn in the initial states of SpecCarry.
MaxPrev == 2
MaxToday == 1
\* Longest record passed to save_day in SpecStore.
MaxRec == 2
\* Most tokens that reach the disk before a failing write stops.
MaxPartial == 1
\* Most user edits in one behaviour of Spec.
MaxEdits == 1
\* Most calls of carry_over_tasks in a row for one today.
MaxRuns == 2

\* --------------------------------------------------------------- constants
TASKS_PER_DAY == 5

Dates == 0..MaxDay

\* ------------------------------------------------------------------- texts
Quote == "\""
Backslash == "\\"
Whitespace == {" ", "\t", "\n"}

Task(text, done, carried) == [text |-> text, done |-> done, carried |-> carried]

\* str.strip(): drop leading, then trailing, whitespace characters.
RECURSIVE lstrip(_)
lstrip(s) ==
    IF s = <<>> THEN <<>>
    ELSE IF Head(s) \in Whitespace THEN lstrip(Tail(s)) ELSE s

RECURSIVE rstrip(_)
rstrip(s) ==
    IF s = <<>> THEN <<>>
    ELSE IF s[Len(s)] \in Whitespace THEN rstrip(SubSeq(s, 1, Len(s) - 1)) ELSE s

strip(s) == rstrip(lstrip(s))

\* Truthiness of t["text"].strip()
has_text(t) == strip(t.text) # <<>>

\* -------------------------------------------------------------------- JSON
\* A token is a sequence of strings: punctuation and true/false are one
\* element, a string literal is its characters between two quotes.
LBrack == <<"[">>
RBrack == <<"]">>
LBrace == <<"{">>
RBrace == <<"}">>
Comma == <<",">>
Colon == <<":">>
TrueTok == <<"true">>
FalseTok == <<"false">>

\* Variant: the quote is written unescaped.
escape_char_raw_quote(c) ==
    IF c = Backslash THEN <<Backslash, Backslash>>
    ELSE IF c = "\n" THEN <<Backslash, "n">>
    ELSE IF c = "\t" THEN <<Backslash, "t">>
    ELSE <<c>>

\* json's string escaping of one character (ensure_ascii; the characters of
\* the model are ASCII).
escape_char(c) ==
    IF c = Quote THEN <<Backslash, Quote>>
    ELSE IF c = Backslash THEN <<Backslash, Backslash>>
    ELSE IF c = "\n" THEN <<Backslash, "n">>
    ELSE IF c = "\t" THEN <<Backslash, "t">>
    ELSE <<c>>

RECURSIVE escape(_)
escape(s) == IF s = <<>> THEN <<>> ELSE escape_char(Head(s)) \o escape(Tail(s))

str_token(s) == <<Quote>> \o escape(s) \o <<Quote>>
bool_token(b) == IF b THEN TrueTok ELSE FalseTok

KeyText == <<Quote, "text", Quote>>
KeyDone == <<Quote, "done", Quote>>
KeyCarried == <<Quote, "carried", Quote>>

dump_task(t) ==
    << LBrace, KeyText, Colon, str_token(t.text), Comma,
       KeyDone, Colon, bool_token(t.done), Comma,
       KeyCarried, Colon, bool_token(t.carried), RBrace >>

RECURSIVE dump_items(_)
dump_items(tasks) ==
    IF tasks = <<>> THEN <<>>
    ELSE IF Len(tasks) = 1 THEN dump_task(tasks[1])
    ELSE dump_task(tasks[1]) \o <<Comma>> \o dump_items(Tail(tasks))

\* json.dump(tasks, f): the token stream written to the file.
json_dump(tasks) == <<LBrack>> \o dump_items(tasks) \o <<RBrack>>

\* The decoder's unescaping of the inside of a string literal;
\* ok = FALSE is json.JSONDecodeError.
RECURSIVE unescape(_)
unescape(s) ==
    IF s = <<>> THEN [ok |-> TRUE, val |-> <<>>]
    ELSE IF Head(s) = Quote THEN [ok |-> FALSE, val |-> <<>>]
    ELSE IF Head(s) = Backslash THEN
        IF Len(s) < 2 THEN [ok |-> FALSE, val |-> <<>>]
        ELSE LET e == s[2]
                 c == IF e = "n" THEN "\n" ELSE IF e = "t" THEN "\t" ELSE e
                 rest == unescape(SubSeq(s, 3, Len(s)))
             IN  IF e \in {Quote, Backslash, "n", "t"} /\ rest.ok
                 THEN [ok |-> TRUE, val |-> <<c>> \o rest.val]
                 ELSE [ok |-> FALSE, val |-> <<>>]
    ELSE LET rest == unescape(Tail(s))
         IN  IF rest.ok THEN [ok |-> TRUE, val |-> <<Head(s)>> \o rest.val]
             ELSE [ok |-> FALSE, val |-> <<>>]

is_str_token(tok) ==
    /\ Len(tok) >= 2
    /\ tok[1] = Quote
    /\ tok[Len(tok)] = Quote
    /\ unescape(SubSeq(tok, 2, Len(tok) - 1)).ok

parse_str(tok) == unescape(SubSeq(tok, 2, Len(tok) - 1)).val

is_bool_token(tok) == tok \in {TrueTok, FalseTok}

\* One object of the array: the 13 tokens from position p.
is_task_at(c, p) ==
    /\ c[p] = LBrace
    /\ c[p + 1] = KeyText
    /\ c[p + 2] = Colon
    /\ is_str_token(c[p + 3])
    /\ c[p + 4] = Comma
    /\ c[p + 5] = KeyDone
    /\ c[p + 6] = Colon
    /\ is_bool_token(c[p + 7])
    /\ c[p + 8] = Comma
    /\ c[p + 9] = KeyCarried
    /\ c[p + 10] = Colon
    /\ is_bool_token(c[p + 11])
    /\ c[p + 12] = RBrace

parse_task_at(c, p) ==
    Task(parse_str(c[p + 3]), c[p + 7] = TrueTok, c[p + 11] = TrueTok)

\* Whether the token stream is a complete array of task objects.
is_json(c) ==
    LET n == Len(c)
        k == (n - 1) \div 14
    IN  /\ n >= 2
        /\ c[1] = LBrack
        /\ c[n] = RBrack
        /\ \/ n = 2
           \/ /\ n = 14 * k + 1
              /\ \A i \in 0..(k - 1) : is_task_at(c, 2 + 14 * i)
              /\ \A i \in 1..(k - 1) : c[1 + 14 * i] = Comma

\* json.load(f): kind "list" with the tasks, or kind "error" (JSONDecodeError).
json_load(c) ==
    IF is_json(c)
    THEN [kind |-> "list",
          val |-> [i \in 1..((Len(c) - 1) \div 14) |-> parse_task_at(c, 2 + 14 * (i - 1))]]
    ELSE [kind |-> "error", val |-> <<>>]

\* --------------------------------------------------------------- Day Store
NoFile == [exists |-> FALSE, content |-> <<>>]
File(c) == [exists |-> TRUE, content |-> c]

\* _data_path(day): one file per ISO date; a date outside Dates has no file.
data_path(fs, day) == IF day \in Dates THEN fs[day] ELSE NoFile

None == [kind |-> "none", val |-> <<>>]
List(tasks) == [kind |-> "list", val |-> tasks]

load_day(fs, day) ==
    LET p == data_path(fs, day)
    IN  IF ~p.exists THEN None ELSE json_load(p.content)

save_day(fs, day, tasks) == [fs EXCEPT ![day] = File(json_dump(tasks))]

blank_tasks == [i \in 1..TASKS_PER_DAY |-> Task(<<>>, FALSE, FALSE)]

\* ---------------------------------------------------- Completion Aggregator
Counts(done, total) == [kind |-> "counts", val |-> <<done, total>>]
Raised == [kind |-> "error", val |-> <<>>]

\* Variant: every done task counts as completed, with text or without.
task_counts_any_done(fs, day) ==
    LET data == load_day(fs, day)
    IN  IF data.kind = "error" THEN Raised
        ELSE IF data.kind = "none" THEN Counts(-1, -1)
        ELSE LET total == Len(SelectSeq(data.val, LAMBDA t : has_text(t)))
                 done == Len(SelectSeq(data.val, LAMBDA t : t.done))
             IN  IF total = 0 THEN Counts(-1, -1) ELSE Counts(done, total)

\* task_counts(day): (completed, total_with_text), (-1,-1) if no tasks; a
\* file json.load rejects raises.
task_counts(fs, day) ==
    LET data == load_day(fs, day)
    IN  IF data.kind = "error" THEN Raised
        ELSE IF data.kind = "none" THEN Counts(-1, -1)
        ELSE LET total == Len(SelectSeq(data.val, LAMBDA t : has_text(t)))
                 done == Len(SelectSeq(data.val, LAMBDA t : t.done /\ has_text(t)))
             IN  IF total = 0 THEN Counts(-1, -1) ELSE Counts(done, total)

\* -------------------------------------------------------- Carry-Over Engine
\* Variant: a task that was itself carried into yesterday is not carried on.
incomplete_not_carried(prev) ==
    SelectSeq(prev, LAMBDA t : has_text(t) /\ ~t.done /\ ~t.carried)

\* Variant: done tasks are carried too.
incomplete_ignoring_done(prev) == SelectSeq(prev, LAMBDA t : has_text(t))

\* incomplete = [t for t in prev if t["text"].strip() and not t["done"]]
incomplete_of(prev) == SelectSeq(prev, LAMBDA t : has_text(t) /\ ~t.done)

\* Variant: the scan does not skip the slots that hold text.
skip_none(today_data, slot) == slot

\* while slot < len(today_data) and today_data[slot]["text"].strip(): slot += 1
RECURSIVE skip_filled(_, _)
skip_filled(today_data, slot) ==
    IF slot < Len(today_data) /\ has_text(today_data[slot + 1])
    THEN skip_filled(today_data, slot + 1)
    ELSE slot

\* Variant: a placed task stays in remaining.
list_remove_nothing(remaining, task) == remaining

\* remaining.remove(task): drop the first element equal to task.
RECURSIVE list_remove(_, _)
list_remove(remaining, task) ==
    IF remaining = <<>> THEN <<>>
    ELSE IF Head(remaining) = task THEN Tail(remaining)
    ELSE <<Head(remaining)>> \o list_remove(Tail(remaining), task)

\* Variant: the carried task is written to the first slot, not the free one.
fill_slot_first(today_data, slot, task) ==
    [today_data EXCEPT ![1] = Task(task.text, FALSE, TRUE)]

\* The assignment to today_data[slot]: text, done and carried of the slot.
fill_slot(today_data, slot, task) ==
    [today_data EXCEPT ![slot + 1] = Task(task.text, FALSE, TRUE)]

\* for task in list(remaining): ... ; todo is what the loop has yet to visit.
RECURSIVE fill_loop(_, _, _, _)
fill_loop(todo, today_data, slot, remaining) ==
    IF todo = <<>> THEN [today_data |-> today_data, remaining |-> remaining]
    ELSE LET task == Head(todo)
             s == skip_filled(today_data, slot)
         IN  IF s >= Len(today_data)
             THEN [today_data |-> today_data, remaining |-> remaining]
             ELSE fill_loop(Tail(todo), fill_slot(today_data, s, task), s + 1,
                            list_remove(remaining, task))

\* Variant: the tasks that found no slot are dropped.
append_nothing(today_data, remaining) == today_data

\* for task in remaining: today_data.append({... "done": False, "carried": True})
RECURSIVE append_remaining(_, _)
append_remaining(today_data, remaining) ==
    IF remaining = <<>> THEN today_data
    ELSE append_remaining(Append(today_data, Task(Head(remaining).text, FALSE, TRUE)),
                          Tail(remaining))

\* Variant: the guard never fires.
never_carried(today_data) == FALSE

\* if any(t["carried"] for t in today_data): return
already_carried(today_data) == \E i \in DOMAIN today_data : today_data[i].carried

\* Variant: the carried tasks are moved, yesterday's record is rewritten
\* without them.
carry_over_tasks_moving(fs, day) ==
    LET prev == load_day(fs, day - 1)
    IN  IF prev.kind # "list" THEN fs
        ELSE LET incomplete == incomplete_of(prev.val)
             IN  IF incomplete = <<>> THEN fs
                 ELSE LET loaded == load_day(fs, day)
                          today_data == IF loaded.kind = "none" THEN blank_tasks
                                        ELSE loaded.val
                      IN  IF loaded.kind = "error" THEN fs
                          ELSE IF already_carried(today_data) THEN fs
                          ELSE LET filled == fill_loop(incomplete, today_data, 0,
                                                       incomplete)
                                   kept == SelectSeq(prev.val,
                                               LAMBDA t : ~has_text(t) \/ t.done)
                               IN  save_day(save_day(fs, day,
                                                     append_remaining(filled.today_data,
                                                                      filled.remaining)),
                                            day - 1, kept)

\* carry_over_tasks(today): the files it leaves.  A file json.load rejects
\* raises before anything is written.
carry_over_tasks(fs, day) ==
    LET prev == load_day(fs, day - 1)
    IN  IF prev.kind # "list" THEN fs
        ELSE LET incomplete == incomplete_of(prev.val)
             IN  IF incomplete = <<>> THEN fs
                 ELSE LET loaded == load_day(fs, day)
                          today_data == IF loaded.kind = "none" THEN blank_tasks
                                        ELSE loaded.val
                      IN  IF loaded.kind = "error" THEN fs
                          ELSE IF already_carried(today_data) THEN fs
                          ELSE LET filled == fill_loop(incomplete, today_data, 0,
                                                       incomplete)
                               IN  save_day(fs, day,
                                            append_remaining(filled.today_data,
                                                             filled.remaining))

\* ------------------------------------------------- history of an operation
Op(name, day) == [op |-> name, day |-> day, idx |-> 0, arg |-> <<>>]
OpAt(name, day, idx) == [op |-> name, day |-> day, idx |-> idx, arg |-> <<>>]
OpWith(name, day, arg) == [op |-> name, day |-> day, idx |-> 0, arg |-> arg]
\* One day's first run of the engine: the day, and whether that day's record
\* held a carried task when the run began.
Run(fs, day) ==
    [day |-> day,
     latched |-> LET loaded == load_day(fs, day)
                 IN  loaded.kind = "list" /\ already_carried(loaded.val)]
NoOut == [kind |-> "none", val |-> <<>>]
NoFiles == [d \in Dates |-> NoFile]

\* All sequences over S of length at most n.
SeqsUpTo(S, n) == UNION {[1..k -> S] : k \in 0..n}

\* =================================================== SpecCarry: the engine
\* The inputs of carry_over_tasks: yesterday's and today's record, each
\* possibly absent, drawn from bounded sets.  today starts at day 1.
PrevTasks ==
    { Task(<<>>, FALSE, FALSE), Task(<<" ">>, FALSE, FALSE), Task(<<"a">>, FALSE, FALSE),
      Task(<<"b", " ">>, FALSE, FALSE), Task(<<"a">>, TRUE, FALSE) }
TodayTasks ==
    { Task(<<>>, FALSE, FALSE), Task(<<" ">>, FALSE, FALSE), Task(<<"x">>, TRUE, FALSE),
      Task(<<"c">>, FALSE, TRUE) }
\* A blank record with one slot typed in.
PartlyFilled ==
    { [blank_tasks EXCEPT ![i] = t] : i \in 1..TASKS_PER_DAY, t \in TodayTasks }
PrevRecords == SeqsUpTo(PrevTasks, MaxPrev)
TodayRecords == SeqsUpTo(TodayTasks, MaxToday) \cup PartlyFilled

StoredOrAbsent(records) == {NoFile} \cup {File(json_dump(r)) : r \in records}

InitCarry ==
    /\ \E y \in StoredOrAbsent(PrevRecords), t \in StoredOrAbsent(TodayRecords) :
          files = [d \in Dates |-> IF d = 0 THEN y ELSE IF d = 1 THEN t ELSE NoFile]
    /\ today = 1
    /\ running = FALSE
    /\ selected_date = 0
    /\ current_data = <<>>
    /\ row_day = 0
    /\ edits = 0
    /\ lastop = Op("init", 0)
    /\ pre = files
    /\ out = NoOut

\* One call of carry_over_tasks(today), as MainWindow.__init__ makes it.
\* lastop.idx counts the calls made in a row for this today, lastop.arg lists
\* the days the engine has run on, oldest first.
CarryOver ==
    /\ lastop.idx < MaxRuns
    /\ files' = carry_over_tasks(files, today)
    /\ pre' = files
    /\ lastop' = [op |-> "carry", day |-> today, idx |-> lastop.idx + 1,
                  arg |-> IF lastop.idx = 0 THEN Append(lastop.arg, Run(files, today))
                          ELSE lastop.arg]
    /\ UNCHANGED <<today, running, selected_date, current_data, row_day, edits, out>>

\* Midnight passes between two runs of the program.
NextDay ==
    /\ today < MaxDay
    /\ today' = today + 1
    /\ lastop' = OpWith("nextday", today + 1, lastop.arg)
    /\ UNCHANGED <<files, running, selected_date, current_data, row_day, edits, pre, out>>

NextCarry == CarryOver \/ NextDay

SpecCarry == InitCarry /\ [][NextCarry]_vars

\* ------------------------------------------------ claims on carry_over_tasks
\* What the last carry_over_tasks(today) call saw and left.
CarryRan == lastop.op = "carry"
PrevLoaded == load_day(pre, today - 1)
PrevRecord == PrevLoaded.val
TodayLoaded == load_day(pre, today)
TodayBefore == IF TodayLoaded.kind = "none" THEN blank_tasks ELSE TodayLoaded.val
TodayAfter == load_day(files, today).val

\* The indices of rec, ascending, whose task satisfies the test given as a set.
Indices(rec) == [i \in 1..Len(rec) |-> i]
Min(a, b) == IF a < b THEN a ELSE b

\* "non-empty text" read literally, and as the code tests it.
NonEmpty(t) == t.text # <<>>
IncompleteAsStated == SelectSeq(PrevRecord, LAMBDA t : NonEmpty(t) /\ ~t.done)
EmptySlotsAsStated == SelectSeq(Indices(TodayBefore), LAMBDA i : ~NonEmpty(TodayBefore[i]))
IncompleteStripped == SelectSeq(PrevRecord, LAMBDA t : strip(t.text) # <<>> /\ ~t.done)
EmptySlotsStripped ==
    SelectSeq(Indices(TodayBefore), LAMBDA i : strip(TodayBefore[i].text) = <<>>)
CarriedBefore == \E i \in DOMAIN TodayBefore : TodayBefore[i].carried

\* C1: a second call of carry_over_tasks(today) right after a first one, with
\* no edit in between, leaves today's stored record as the first call left it.
C1_Idempotent == (CarryRan /\ lastop.idx >= 2) => files[today] = pre[today]

\* Two calls in a row on day 1, the first of which carried "a" into today.
C1_Witness ==
    /\ CarryRan /\ lastop.idx = 2 /\ today = 1
    /\ \E i \in DOMAIN TodayAfter : TodayAfter[i] = Task(<<"a">>, FALSE, TRUE)

\* C2 as stated: after the call every text of a task of yesterday with
\* non-empty text and done = FALSE is the text of some task of today.
C2_NoLossAsStated ==
    CarryRan =>
        \A i \in DOMAIN PrevRecord :
            (NonEmpty(PrevRecord[i]) /\ ~PrevRecord[i].done) =>
                \E j \in DOMAIN TodayAfter : TodayAfter[j].text = PrevRecord[i].text

\* C2 amended: when today's record held no carried task before the call,
\* every text of a task of yesterday whose text is non-empty after stripping
\* whitespace and whose done = FALSE is the text of some task of today.
C2_NoLoss ==
    (CarryRan /\ ~CarriedBefore) =>
        \A i \in DOMAIN PrevRecord :
            (strip(PrevRecord[i].text) # <<>> /\ ~PrevRecord[i].done) =>
                \E j \in DOMAIN TodayAfter : TodayAfter[j].text = PrevRecord[i].text

\* Two incomplete tasks carried into a today record that had no empty slot.
C2_Witness ==
    /\ CarryRan /\ ~CarriedBefore
    /\ Len(IncompleteStripped) = 2
    /\ TodayLoaded.kind = "list" /\ Len(TodayBefore) >= 1
    /\ EmptySlotsStripped = <<>>
    /\ Len(TodayAfter) = Len(TodayBefore) + 2

\* C3: if yesterday's record is absent, or yesterday has no task with
\* non-empty text and done = FALSE, or today's record already holds a carried
\* task, the call leaves today's file unchanged (an absent file stays absent).
C3_NoOp ==
    (CarryRan /\ (\/ PrevLoaded.kind = "none"
                  \/ IncompleteAsStated = <<>>
                  \/ CarriedBefore))
        => files[today] = pre[today]

\* Yesterday stored with only done or empty tasks, today absent and left absent.
C3_Witness ==
    /\ CarryRan
    /\ PrevLoaded.kind = "list"
    /\ \E i \in DOMAIN PrevRecord : PrevRecord[i].done /\ NonEmpty(PrevRecord[i])
    /\ IncompleteAsStated = <<>>
    /\ ~pre[today].exists /\ ~files[today].exists

\* C4 as stated: when carry-over is applied, the i-th task of yesterday with
\* non-empty text and done = FALSE is written, done = FALSE and carried =
\* TRUE, into the i-th slot of today whose text is empty.
C4_SlotFillingAsStated ==
    (CarryRan /\ IncompleteAsStated # <<>> /\ ~CarriedBefore) =>
        \A i \in 1..Min(Len(IncompleteAsStated), Len(EmptySlotsAsStated)) :
            /\ EmptySlotsAsStated[i] <= Len(TodayAfter)
            /\ TodayAfter[EmptySlotsAsStated[i]] =
                   Task(IncompleteAsStated[i].text, FALSE, TRUE)

\* C4 amended: the same with "empty" and "non-empty" taken after stripping
\* whitespace, as the code tests them.
C4_SlotFilling ==
    (CarryRan /\ IncompleteStripped # <<>> /\ ~CarriedBefore) =>
        \A i \in 1..Min(Len(IncompleteStripped), Len(EmptySlotsStripped)) :
            /\ EmptySlotsStripped[i] <= Len(TodayAfter)
            /\ TodayAfter[EmptySlotsStripped[i]] =
                   Task(IncompleteStripped[i].text, FALSE, TRUE)

\* Incomplete [a, b] into ["", x, "", "", ""] gives [a, x, b, "", ""]; the
\* text of b ends in a space and is carried as it is.
C4_Witness ==
    /\ CarryRan
    /\ [i \in DOMAIN IncompleteStripped |-> IncompleteStripped[i].text]
           = << <<"a">>, <<"b", " ">> >>
    /\ [i \in DOMAIN TodayBefore |-> TodayBefore[i].text]
           = << <<>>, <<"x">>, <<>>, <<>>, <<>> >>
    /\ ~CarriedBefore
    /\ [i \in DOMAIN TodayAfter |-> TodayAfter[i].text]
           = << <<"a">>, <<"x">>, <<"b", " ">>, <<>>, <<>> >>

\* C5 as stated: with n tasks of yesterday of non-empty text and done = FALSE
\* and m slots of today of empty text, today grows by n - m tasks when n > m
\* and by none otherwise; the new tasks are the tasks m+1..n, in order, with
\* done = FALSE and carried = TRUE.
C5_OverflowAsStated ==
    (CarryRan /\ IncompleteAsStated # <<>> /\ ~CarriedBefore) =>
        LET n == Len(IncompleteAsStated)
            m == Len(EmptySlotsAsStated)
            grow == IF n > m THEN n - m ELSE 0
        IN  /\ Len(TodayAfter) = Len(TodayBefore) + grow
            /\ \A j \in 1..grow :
                   TodayAfter[Len(TodayBefore) + j] =
                       Task(IncompleteAsStated[m + j].text, FALSE, TRUE)

\* C5 amended: the same with "empty" and "non-empty" taken after stripping
\* whitespace, as the code tests them.
C5_Overflow ==
    (CarryRan /\ IncompleteStripped # <<>> /\ ~CarriedBefore) =>
        LET n == Len(IncompleteStripped)
            m == Len(EmptySlotsStripped)
            grow == IF n > m THEN n - m ELSE 0
        IN  /\ Len(TodayAfter) = Len(TodayBefore) + grow
            /\ \A j \in 1..grow :
                   TodayAfter[Len(TodayBefore) + j] =
                       Task(IncompleteStripped[m + j].text, FALSE, TRUE)

\* Two incomplete tasks, one empty slot: the second one is appended.
C5_Witness ==
    /\ CarryRan /\ ~CarriedBefore
    /\ Len(IncompleteStripped) = 2 /\ Len(EmptySlotsStripped) = 1
    /\ Len(TodayAfter) = Len(TodayBefore) + 1
    /\ TodayAfter[Len(TodayAfter)] = Task(IncompleteStripped[2].text, FALSE, TRUE)

\* Today's stored record before the call: no task when there is no file.
TodayStored == TodayLoaded.val

\* C11 as stated: every task of today whose text was not the empty string
\* before carry_over_tasks(today) is at the same index with the same text,
\* done and carried after it, and the record has not become shorter.
C11_NoOverwriteAsStated ==
    CarryRan =>
        LET before == TodayStored
            after == TodayAfter
        IN  /\ Len(after) >= Len(before)
            /\ \A i \in DOMAIN before : NonEmpty(before[i]) => after[i] = before[i]

\* C11 amended: every task of today whose text held more than whitespace
\* before carry_over_tasks(today) is at the same index with the same text,
\* done and carried after it; a slot that changed held the empty string or
\* whitespace only, and the record has not become shorter.
C11_NoOverwrite ==
    CarryRan =>
        LET before == TodayStored
            after == TodayAfter
        IN  /\ Len(after) >= Len(before)
            /\ \A i \in DOMAIN before :
                   /\ strip(before[i].text) # <<>> => after[i] = before[i]
                   /\ after[i] # before[i] => strip(before[i].text) = <<>>

\* A call that wrote today's record: the done task "x" of a later slot is
\* where it was, and an earlier slot that was empty holds a carried task.
C11_Witness ==
    /\ CarryRan /\ files[today] # pre[today]
    /\ \E i, j \in DOMAIN TodayStored :
           /\ j < i
           /\ TodayStored[i] = Task(<<"x">>, TRUE, FALSE)
           /\ TodayAfter[i] = TodayStored[i]
           /\ TodayStored[j].text = <<>>
           /\ TodayAfter[j].carried

\* Yesterday's record as the call left it.
PrevAfter == load_day(files, today - 1).val

\* C12: carry_over_tasks(today) writes no file but today's, whether it
\* returns early, fills slots or appends: the file of every other date is
\* what it was, and each incomplete task of yesterday is still in yesterday's
\* record, at its index, with done = FALSE.
C12_CopyNotMove ==
    CarryRan =>
        LET before == PrevRecord
            after == PrevAfter
        IN  /\ \A d \in Dates : d # today => files[d] = pre[d]
            /\ Len(after) = Len(before)
            /\ \A i \in DOMAIN before :
                   (has_text(before[i]) /\ ~before[i].done) =>
                       (after[i].text = before[i].text /\ ~after[i].done)

\* A call that appended to today's record: "a" was carried into today and is
\* still an incomplete, uncarried task of yesterday.
C12_Witness ==
    /\ CarryRan /\ files[today] # pre[today]
    /\ Len(TodayAfter) > Len(TodayBefore)
    /\ \E i \in DOMAIN TodayAfter : TodayAfter[i] = Task(<<"a">>, FALSE, TRUE)
    /\ \E i \in DOMAIN PrevAfter : PrevAfter[i] = Task(<<"a">>, FALSE, FALSE)

\* The engine has run on every day from day 1 to today, today included, and
\* day 0's record, which no run writes, is the record of the day before.
RanDays == [i \in DOMAIN lastop.arg |-> lastop.arg[i].day]
ChainRan == CarryRan /\ RanDays = [i \in 1..today |-> i]
NeverLatched == \A i \in DOMAIN lastop.arg : ~lastop.arg[i].latched
FirstRecord == load_day(files, 0).val
\* The engine did not run yesterday and yesterday has no stored record.
ChainBroken ==
    /\ CarryRan /\ today >= 2
    /\ \A i \in DOMAIN lastop.arg : lastop.arg[i].day # today - 1
    /\ ~pre[today - 1].exists

\* C13 as stated: when the engine has run on each of the days 1 .. today,
\* every task of day 0 that is not done and whose text is not the empty
\* string is in today's record with done = FALSE and carried = TRUE; and a
\* run whose yesterday was skipped and has no record carries nothing.
C13_ChainAsStated ==
    /\ ChainRan =>
           LET first == FirstRecord
               after == TodayAfter
           IN  \A i \in DOMAIN first :
                   (NonEmpty(first[i]) /\ ~first[i].done) =>
                       \E k \in DOMAIN after : after[k] = Task(first[i].text, FALSE, TRUE)
    /\ ChainBroken => files[today] = pre[today]

\* C13 amended: when the engine has run on each of the days 1 .. today and
\* none of these days' records held a carried task before its first run,
\* every task of day 0 that is not done and whose text holds more than
\* whitespace is in today's record with done = FALSE and carried = TRUE; and
\* a run whose yesterday was skipped and has no record carries nothing.
C13_Chain ==
    /\ (ChainRan /\ NeverLatched) =>
           LET first == FirstRecord
               after == TodayAfter
           IN  \A i \in DOMAIN first :
                   (strip(first[i].text) # <<>> /\ ~first[i].done) =>
                       \E k \in DOMAIN after : after[k] = Task(first[i].text, FALSE, TRUE)
    /\ ChainBroken => files[today] = pre[today]

\* Runs on day 1 and on day 2: "a" of day 0 went through day 1's record into
\* day 2's.
C13_Witness ==
    /\ ChainRan /\ NeverLatched /\ today = 2
    /\ \E i \in DOMAIN FirstRecord : FirstRecord[i] = Task(<<"a">>, FALSE, FALSE)
    /\ \E i \in DOMAIN PrevRecord : PrevRecord[i] = Task(<<"a">>, FALSE, TRUE)
    /\ \E k \in DOMAIN TodayAfter : TodayAfter[k] = Task(<<"a">>, FALSE, TRUE)

\* ============================== SpecStore: the Day Store and the Aggregator
\* save_day, load_day and task_counts applied to stored files: the files of
\* two dates are drawn from a bounded set, one save_day call (which may fail)
\* is made, and load_day and task_counts read the result.
StoreDates == {0, 1}
StoreTasks ==
    { Task(<<>>, TRUE, FALSE), Task(<<" ">>, TRUE, FALSE), Task(<<"a">>, FALSE, FALSE),
      Task(<<"a">>, TRUE, TRUE), Task(<<Quote, Backslash>>, FALSE, TRUE),
      Task(<<"\n", "b", "\t">>, TRUE, FALSE) }
StoreRecords == SeqsUpTo(StoreTasks, MaxRec)
StoredBefore ==
    StoredOrAbsent({ <<>>, <<Task(<<"a">>, FALSE, FALSE)>>, blank_tasks })

InitStore ==
    /\ \E f0 \in StoredBefore, f1 \in StoredBefore :
          files = [d \in Dates |-> IF d = 0 THEN f0 ELSE IF d = 1 THEN f1 ELSE NoFile]
    /\ today = 0
    /\ running = FALSE
    /\ selected_date = 0
    /\ current_data = <<>>
    /\ row_day = 0
    /\ edits = 0
    /\ lastop = Op("init", 0)
    /\ pre = files
    /\ out = NoOut

\* save_day(day, tasks) returns.
SaveDay(day, tasks) ==
    /\ lastop.op = "init"
    /\ files' = save_day(files, day, tasks)
    /\ pre' = files
    /\ lastop' = OpWith("save", day, tasks)
    /\ out' = NoOut
    /\ UNCHANGED <<today, running, selected_date, current_data, row_day, edits>>

\* What a save_day call that raises OSError leaves: DATA_DIR.mkdir or open
\* fails and nothing is touched, or open(.., "w") has truncated the file and
\* the write stops after k tokens.
save_day_failing(fs, day, tasks, point, k) ==
    IF point \in {"mkdir", "open"} THEN fs
    ELSE [fs EXCEPT ![day] = File(SubSeq(json_dump(tasks), 1, k))]

\* save_day(day, tasks) raises; the exception reaches the caller.
SaveDayFails(day, tasks) ==
    /\ lastop.op = "init"
    /\ \E point \in {"mkdir", "open", "write"},
          k \in 0..Min(MaxPartial, Len(json_dump(tasks)) - 1) :
          files' = save_day_failing(files, day, tasks, point, k)
    /\ pre' = files
    /\ lastop' = OpWith("save_failed", day, tasks)
    /\ out' = Raised
    /\ UNCHANGED <<today, running, selected_date, current_data, row_day, edits>>

\* load_day(day) is called; lastop.idx = 1 when it follows save_day(day, ..).
LoadDay(day) ==
    /\ out' = load_day(files, day)
    /\ lastop' = [op |-> "load", day |-> day,
                  idx |-> IF lastop.op = "save" /\ lastop.day = day THEN 1 ELSE 0,
                  arg |-> lastop.arg]
    /\ UNCHANGED <<files, pre, today, running, selected_date, current_data, row_day, edits>>

\* ColouredCalendar.paintCell calls task_counts(day).
PaintCell(day) ==
    /\ out' = task_counts(files, day)
    /\ lastop' = Op("counts", day)
    /\ UNCHANGED <<files, pre, today, running, selected_date, current_data, row_day, edits>>

NextStore ==
    \/ \E day \in StoreDates, tasks \in StoreRecords : SaveDay(day, tasks)
    \/ \E day \in StoreDates, tasks \in StoreRecords : SaveDayFails(day, tasks)
    \/ \E day \in StoreDates : LoadDay(day)
    \/ \E day \in StoreDates : PaintCell(day)

SpecStore == InitStore /\ [][NextStore]_vars

\* ------------------------------------------- claims on the store and counts
CountedRecord == load_day(files, lastop.day)
CountsRan == lastop.op = "counts" /\ CountedRecord.kind = "list"

\* C6 as stated: task_counts returns (done_count, total_entered), total_entered
\* the number of tasks with non-empty text and done_count the number of those
\* with done = TRUE, and (-1,-1) exactly when total_entered = 0.
C6_FractionAsStated ==
    CountsRan =>
        LET rec == CountedRecord.val
            total == Cardinality({i \in DOMAIN rec : rec[i].text # <<>>})
            done == Cardinality({i \in DOMAIN rec : rec[i].text # <<>> /\ rec[i].done})
        IN  out = IF total = 0 THEN Counts(-1, -1) ELSE Counts(done, total)

\* C6 amended: the same with "non-empty" taken after stripping whitespace: a
\* task whose text is only whitespace is not counted.
C6_Fraction ==
    CountsRan =>
        LET rec == CountedRecord.val
            total == Cardinality({i \in DOMAIN rec : strip(rec[i].text) # <<>>})
            done == Cardinality({i \in DOMAIN rec :
                                    strip(rec[i].text) # <<>> /\ rec[i].done})
        IN  /\ out = IF total = 0 THEN Counts(-1, -1) ELSE Counts(done, total)
            /\ (out = Counts(-1, -1)) <=> (total = 0)

\* A record of tasks without text, all done, counted as (-1,-1); and a record
\* counted as (0, total).
C6_Witness ==
    /\ CountsRan
    /\ Len(CountedRecord.val) = 2
    /\ \A i \in DOMAIN CountedRecord.val :
           CountedRecord.val[i].done /\ strip(CountedRecord.val[i].text) = <<>>
    /\ out = Counts(-1, -1)

\* C8: after save_day(d, r) returns, load_day(d) returns r whatever the file of
\* d held before, and the file of every other date is what it was.
C8_RoundTrip ==
    /\ lastop.op = "save" =>
          /\ load_day(files, lastop.day) = List(lastop.arg)
          /\ \A e \in Dates : e # lastop.day => files[e] = pre[e]
    /\ (lastop.op = "load" /\ lastop.idx = 1) => out = List(lastop.arg)

\* A two-task record with a quote and a backslash in a text saved over a
\* stored record and read back, the other date holding a record of its own.
C8_Witness ==
    /\ lastop.op = "load" /\ lastop.idx = 1
    /\ Len(lastop.arg) = 2
    /\ lastop.arg[1].text = <<Quote, Backslash>>
    /\ out.kind = "list" /\ out.val = lastop.arg
    /\ pre[lastop.day].exists /\ load_day(pre, lastop.day) # out
    /\ \E e \in StoreDates : e # lastop.day /\ files[e].exists

\* C10: when save_day(d, r) raises, the exception reaches the caller and the
\* file of d is still what it was before the call.
C10_WriteFailureKeepsOld ==
    lastop.op = "save_failed" => (out = Raised /\ files[lastop.day] = pre[lastop.day])

\* ==================================================== Spec: the main window
\* The program as the user drives it: the window opens (carry-over, then the
\* first render), the user selects dates and edits rows, the window closes,
\* midnight passes.
UITexts == { <<>>, <<"a">>, <<"b", Quote>> }
\* The dates that are today or are clicked in the calendar.
UIDates == {0, 1}
\* What an earlier session may have left for day 0.
StoredEarlier ==
    StoredOrAbsent({ [blank_tasks EXCEPT ![2] = Task(<<"a">>, FALSE, FALSE)] })

InitUI ==
    /\ \E f0 \in StoredEarlier : files = [NoFiles EXCEPT ![0] = f0]
    /\ today = 0
    /\ running = FALSE
    /\ selected_date = 0
    /\ current_data = <<>>
    /\ row_day = 0
    /\ edits = 0
    /\ lastop = Op("init", 0)
    /\ pre = NoFiles
    /\ out = NoOut

\* MainWindow._render_checklist for the selected date: the files and the
\* list the new rows share.  A missing record is created blank and saved.
render_checklist(fs, day) ==
    LET data == load_day(fs, day)
    IN  IF data.kind = "none"
        THEN [files |-> save_day(fs, day, blank_tasks), data |-> blank_tasks]
        ELSE [files |-> fs, data |-> data.val]

\* Whether _render_checklist finds no record for the date it displays.
first_access(fs, day) == IF load_day(fs, day).kind = "none" THEN 1 ELSE 0

\* Variant: the changed rows are not written.
on_task_changed_unsaved(fs, day, tasks) == fs

\* MainWindow._on_task_changed(day, tasks)
on_task_changed(fs, day, tasks) == save_day(fs, day, tasks)

\* MainWindow._add_task, up to the render: the files it leaves.
add_task(fs, day) ==
    LET loaded == load_day(fs, day)
        data == IF loaded.kind = "none" THEN blank_tasks ELSE loaded.val
    IN  save_day(fs, day, Append(data, Task(<<>>, FALSE, FALSE)))

\* data.pop(index)
list_pop(data, index) ==
    SubSeq(data, 1, index) \o SubSeq(data, index + 2, Len(data))

\* data.insert(index, task)
list_insert(data, index, task) ==
    SubSeq(data, 1, index) \o <<task>> \o SubSeq(data, index + 1, Len(data))

\* MainWindow._remove_task(index), up to the render.
remove_task(fs, day, index) ==
    LET loaded == load_day(fs, day)
    IN  IF loaded.kind = "none" \/ index >= Len(loaded.val) THEN fs
        ELSE save_day(fs, day, list_pop(loaded.val, index))

\* MainWindow._reorder_task(from_index, to_index), up to the render.
reorder_task(fs, day, from_index, to_index) ==
    LET loaded == load_day(fs, day)
    IN  IF loaded.kind = "none" \/ from_index >= Len(loaded.val)
           \/ to_index >= Len(loaded.val)
        THEN fs
        ELSE save_day(fs, day,
                      list_insert(list_pop(loaded.val, from_index), to_index,
                                  loaded.val[from_index + 1]))

\* The rows on screen, by index.
Rows == 0..(Len(current_data) - 1)

\* selected_date is set and _render_checklist runs on the files fs.
Display(fs, day, name) ==
    LET r == render_checklist(fs, day)
    IN  /\ files' = r.files
        /\ current_data' = r.data
        /\ selected_date' = day
        /\ row_day' = day
        /\ lastop' = OpAt(name, 0, first_access(fs, day))

\* MainWindow.__init__: carry_over_tasks(date.today()), then the first render.
Startup ==
    /\ ~running
    /\ running' = TRUE
    /\ Display(carry_over_tasks(files, today), today, "start")
    /\ UNCHANGED <<today, edits, pre, out>>

\* The window is closed and the process ends.
Close ==
    /\ running
    /\ running' = FALSE
    /\ current_data' = <<>>
    /\ selected_date' = 0
    /\ row_day' = 0
    /\ lastop' = Op("close", 0)
    /\ UNCHANGED <<files, today, edits, pre, out>>

\* date.today() moves on, the window open or not.
Midnight ==
    /\ today + 1 \in UIDates
    /\ today' = today + 1
    /\ lastop' = Op("midnight", 0)
    /\ UNCHANGED <<files, running, selected_date, current_data, row_day, edits, pre, out>>

\* MainWindow._jump_to_today
JumpToToday ==
    /\ running
    /\ Display(files, today, "today")
    /\ UNCHANGED <<today, running, edits, pre, out>>

\* MainWindow._on_date_clicked(qdate)
OnDateClicked(day) ==
    /\ running
    /\ Display(files, day, "click")
    /\ UNCHANGED <<today, running, edits, pre, out>>

\* TaskRow._on_text(text) of row index: textChanged fires when the text of the
\* line edit changes; the row's task is an element of the shared list.
OnText(index, text) ==
    /\ running /\ edits < MaxEdits
    /\ index \in Rows
    /\ text # current_data[index + 1].text
    /\ current_data' = [current_data EXCEPT ![index + 1].text = text]
    /\ files' = on_task_changed(files, row_day, current_data')
    /\ edits' = edits + 1
    /\ lastop' = OpAt("text", 0, index)
    /\ UNCHANGED <<today, running, selected_date, row_day, pre, out>>

\* TaskRow._on_toggle(state) of row index: stateChanged fires when the box
\* is checked or unchecked.
OnToggle(index) ==
    /\ running /\ edits < MaxEdits
    /\ index \in Rows
    /\ current_data' = [current_data EXCEPT ![index + 1].done = ~current_data[index + 1].done]
    /\ files' = on_task_changed(files, row_day, current_data')
    /\ edits' = edits + 1
    /\ lastop' = Op("toggle", 0)
    /\ UNCHANGED <<today, running, selected_date, row_day, pre, out>>

\* The render that ends _add_task, _remove_task and _reorder_task.
Rerender(fs, name) ==
    LET r == render_checklist(fs, selected_date)
    IN  /\ files' = r.files
        /\ current_data' = r.data
        /\ row_day' = selected_date
        /\ edits' = edits + 1
        /\ lastop' = Op(name, 0)
        /\ UNCHANGED <<today, running, selected_date, pre, out>>

\* MainWindow._add_task
AddTask ==
    /\ running /\ edits < MaxEdits
    /\ Rerender(add_task(files, selected_date), "add")

\* MainWindow._remove_task(index): the remove button of row index.
RemoveTask(index) ==
    /\ running /\ edits < MaxEdits
    /\ index \in Rows
    /\ Rerender(remove_task(files, selected_date, index), "remove")

\* TaskRow.dropEvent on row to_index of the handle of row from_index:
\* MainWindow._reorder_task is called when the two differ.
ReorderTask(from_index, to_index) ==
    /\ running /\ edits < MaxEdits
    /\ from_index \in Rows /\ to_index \in Rows
    /\ from_index # to_index
    /\ Rerender(reorder_task(files, selected_date, from_index, to_index), "reorder")

Next ==
    \/ Startup
    \/ Close
    \/ Midnight
    \/ JumpToToday
    \/ \E day \in UIDates : OnDateClicked(day)
    \/ \E index \in Rows, text \in UITexts : OnText(index, text)
    \/ \E index \in Rows : OnToggle(index)
    \/ AddTask
    \/ \E index \in Rows : RemoveTask(index)
    \/ \E from_index \in Rows, to_index \in Rows : ReorderTask(from_index, to_index)

Spec == InitUI /\ [][Next]_vars

\* --------------------------------------------------- claims on the window
UserEdits == {"text", "toggle", "add", "remove", "reorder"}
Displays == {"start", "today", "click"}

\* C7: a task whose text the user has just typed is not carried: carried is
\* TRUE only for a text that carry_over_tasks wrote.
C7_CarriedOnlyFromEngine ==
    (running /\ lastop.op = "text") => ~current_data[lastop.idx + 1].carried

\* C9: while the window is open, after every handler the file of the selected
\* date holds exactly the list the rows share, and a date displayed for the
\* first time has a blank record of TASKS_PER_DAY tasks stored.
C9_EditsPersisted ==
    running =>
        /\ row_day = selected_date
        /\ load_day(files, selected_date) = List(current_data)
        /\ (lastop.op \in Displays /\ lastop.idx = 1) =>
               (current_data = blank_tasks /\ Len(current_data) = TASKS_PER_DAY)

\* After MaxEdits edits the selected date's rows differ from a blank record
\* and are what is stored.
C9_Witness ==
    /\ running /\ lastop.op \in UserEdits /\ edits = MaxEdits
    /\ current_data # blank_tasks
    /\ \E i \in DOMAIN current_data : current_data[i].text # <<>>
    /\ load_day(files, selected_date) = List(current_data)

====
